---- MODULE Spec2Model ----
(***************************************************************************)
(* A model of the electrs (Viacoin) configuration layer, src/src/config.rs: *)
(* Config::from_args, Config::cookie_getter and the two CookieGetter        *)
(* implementations (StaticCookie, CookieFile), together with the bulk       *)
(* indexer's ordered commit and the chain tracker's reorg handling, which   *)
(* lib.rs declares (pub mod bulk, pub mod index) and whose behaviour is     *)
(* taken from the design document.                                          *)
(*                                                                          *)
(* Strings that the program parses are sequences of one-character strings,  *)
(* byte strings are sequences of numbers, paths are sequences of            *)
(* components, Option<T> is a sequence of length 0 or 1.                    *)
(***************************************************************************)
EXTENDS Integers, Sequences, FiniteSets, TLC

VARIABLES
    args,        \* the command line of the current invocation (clap's ArgMatches)
    env,         \* the host: home_dir() and num_cpus::get()
    config,      \* what from_args produced for args: nothing yet, a Config, a panic or an exit
    prevArgs,    \* the command line of the invocation before this one
    prevConfig,  \* what from_args produced for prevArgs
    getter,      \* Option<Arc<CookieGetter>>: the provider cookie_getter returned
    fs,          \* the file system: candidate cookie path -> file state
    lastGet,     \* Option: path read and result of the most recent CookieGetter::get
    prevGet,     \* Option: the same for the get before it
    lastOp,      \* the operation that produced this state
    \* the chain tracker
    daemonBest,  \* the daemon's best block
    tip,         \* the Chain Tip: the best block the index knows
    store,       \* the Store's History Entries
    target,      \* the best block the daemon reported at the last poll
    oldTip,      \* the Chain Tip at the last poll
    trackerPc,   \* "idle", "retract", "extend" or "synced"
    \* the bulk indexer
    bulk,        \* its settings: the daemon tip at its start, the chunk size, the pool size
    chainHeight, \* the daemon's tip height now
    nextChunk,   \* the next chunk the work queue hands out
    working,     \* worker -> the chunk it computes (0: none)
    ready,       \* the computed chunks handed to the writer, not yet committed
    handed,      \* the chunks in the order the workers finished them
    committed,   \* the batches in the order the writer committed them
    bulkDone     \* the indexer has completed

ConfigVars == <<args, env, config, prevArgs, prevConfig>>
CookieVars == <<getter, fs, lastGet, prevGet>>
TrackerVars == <<daemonBest, tip, store, target, oldTip, trackerPc>>
BulkVars == <<bulk, chainHeight, nextChunk, working, ready, handed, committed, bulkDone>>

vars == <<ConfigVars, CookieVars, lastOp, TrackerVars, BulkVars>>

(***************************************************************************)
(* Bounds of the model.                                                     *)
(***************************************************************************)
\* the largest number of options given on one command line
MaxGiven == 2
\* the largest number of logical cores of the host
MaxCpus == 2
\* the largest number of cookie files existing at the same time
MaxFiles == 1
\* the largest block height of the chain tracker's block tree
MaxHeight == 3
\* the largest daemon tip height at the bulk indexer's start
MaxTip == 4
\* the largest number of blocks per chunk (index_batch_size)
MaxBatch == 2
\* the largest worker pool (bulk_index_threads)
MaxWorkers == 2
\* the chunks the work queue lets the workers be ahead of the writer
QueueBound == 2
\* the blocks the daemon may add while the bulk indexer runs
MaxGrowth == 1

(***************************************************************************)
(* Option and Result.                                                       *)
(***************************************************************************)
None == <<>>
Some(v) == <<v>>
unwrap_or(o, d) == IF o = None THEN d ELSE o[1]

Ok(v) == [ok |-> TRUE, val |-> v]
Err(k, m) == [ok |-> FALSE, kind |-> k, msg |-> m]

(***************************************************************************)
(* Text conversions: str::parse::<usize>, format!("{}", port),              *)
(* str::parse::<SocketAddr>, String::as_bytes.                              *)
(***************************************************************************)
Digits == <<"0", "1", "2", "3", "4", "5", "6", "7", "8", "9">>
IsDigit(c) == \E d \in 1..10 : Digits[d] = c
DigitVal(c) == (CHOOSE d \in 1..10 : Digits[d] = c) - 1

RECURSIVE DigitsValue(_)
DigitsValue(s) ==
    IF s = <<>> THEN 0
    ELSE 10 * DigitsValue(SubSeq(s, 1, Len(s) - 1)) + DigitVal(s[Len(s)])

\* usize::from_str: an optional "+", then at least one decimal digit.  The
\* texts of the model are far too short to overflow a usize.
usize_from_str(s) ==
    LET body == IF s /= <<>> /\ s[1] = "+" THEN Tail(s) ELSE s
    IN  IF body = <<>> \/ \E i \in 1..Len(body) : ~IsDigit(body[i])
        THEN Err("Parse", s)
        ELSE Ok(DigitsValue(body))

RECURSIVE ToDigits(_)
ToDigits(n) ==
    IF n < 10 THEN <<Digits[n + 1]>>
    ELSE Append(ToDigits(n \div 10), Digits[(n % 10) + 1])

\* An address text "host:port" is the record [host, port]: the host is kept
\* whole, the port is its digits.
LiteralIps == {"127.0.0.1", "10.0.0.1"}
format_addr(port) == [host |-> "127.0.0.1", port |-> ToDigits(port)]

\* SocketAddr::from_str: the host must be an IP literal (names are not
\* resolved), the port decimal digits of a u16.
SocketAddr_from_str(t) ==
    IF t.host \notin LiteralIps
       \/ t.port = <<>>
       \/ (\E i \in 1..Len(t.port) : ~IsDigit(t.port[i]))
       \/ DigitsValue(t.port) > 65535
    THEN Err("AddrParse", t)
    ELSE Ok([ip |-> t.host, port |-> DigitsValue(t.port)])

\* String::as_bytes of ASCII text: each character's code.
AsciiCode(c) ==
    CASE c = "u" -> 117
      [] c = ":" -> 58
      [] c = "p" -> 112
      [] c = "q" -> 113
as_bytes(s) == [i \in 1..Len(s) |-> AsciiCode(s[i])]

(***************************************************************************)
(* Paths: PathBuf::from keeps the text, join and push add a relative        *)
(* component (every component the program adds is relative).                *)
(***************************************************************************)
join(p, c) == Append(p, c)

(***************************************************************************)
(* The command line.                                                        *)
(***************************************************************************)
ValueOpts == {"db_dir", "daemon_dir", "cookie", "network", "electrum_rpc_addr",
              "http_addr", "daemon_rpc_addr", "monitoring_addr",
              "index_batch_size", "bulk_index_threads", "tx_cache_size"}
FlagOpts == {"timestamp", "jsonrpc_import", "light", "disable_prevout"}
AddrOpts == {"electrum_rpc_addr", "http_addr", "daemon_rpc_addr", "monitoring_addr"}

\* the values a user may give to each option
GivenValues(o) ==
    CASE o = "db_dir" -> {<<"/data">>}
      [] o = "daemon_dir" -> {<<"/d">>}
      [] o = "cookie" -> {<<>>, <<"u", ":", "p">>}
      [] o = "network" -> {"mainnet", "testnet", "regtest", "signet"}
      [] o = "daemon_rpc_addr" -> {[host |-> "10.0.0.1", port |-> <<"8", "0">>],
                                   [host |-> "10.0.0.1", port |-> <<"7", "0", "0", "0", "0">>]}
      [] o \in AddrOpts \ {"daemon_rpc_addr"} ->
                                  {[host |-> "10.0.0.1", port |-> <<"8", "0">>],
                                   [host |-> "localhost", port |-> <<"8", "0">>]}
      [] o = "index_batch_size" -> {<<"7">>, <<"x">>}
      [] o = "bulk_index_threads" -> {<<"0">>, <<"0", "0">>, <<"3">>, <<"+", "2">>,
                                      <<"-", "1">>}
      [] o = "tx_cache_size" -> {<<"9">>}

\* the command line with no option on it
NoArgs ==
    [db_dir |-> None, daemon_dir |-> None, cookie |-> None, network |-> None,
     electrum_rpc_addr |-> None, http_addr |-> None, daemon_rpc_addr |-> None,
     monitoring_addr |-> None, index_batch_size |-> None,
     bulk_index_threads |-> None, tx_cache_size |-> None,
     timestamp |-> FALSE, jsonrpc_import |-> FALSE, light |-> FALSE,
     disable_prevout |-> FALSE, verbosity |-> 0]

NumGiven(m) ==
    Cardinality({o \in ValueOpts : m[o] /= None})
    + Cardinality({o \in FlagOpts : m[o]})
    + m.verbosity

\* Arg::default_value
default_value(o) ==
    CASE o = "index_batch_size" -> Some(<<"1", "0", "0">>)
      [] o = "bulk_index_threads" -> Some(<<"0">>)
      [] o = "tx_cache_size" -> Some(<<"1", "0", "0", "0", "0">>)
      [] OTHER -> None

\* ArgMatches::value_of
value_of(m, o) == IF m[o] = None THEN default_value(o) ELSE m[o]
\* ArgMatches::is_present of a flag
is_present(m, o) == m[o]

(***************************************************************************)
(* Config::from_args.                                                       *)
(***************************************************************************)
network_name_of(m) == unwrap_or(value_of(m, "network"), "mainnet")

network_type_of(network_name) ==
    CASE network_name = "mainnet" -> Some("Bitcoin")
      [] network_name = "testnet" -> Some("Testnet")
      [] network_name = "regtest" -> Some("Regtest")
      [] OTHER -> None

db_path_of(m) ==
    join(unwrap_or(value_of(m, "db_dir"), <<".", "db">>), network_name_of(m))

default_daemon_port(network_type) ==
    CASE network_type = "Bitcoin" -> 5222
      [] network_type = "Testnet" -> 25222
      [] network_type = "Regtest" -> 25222
default_electrum_port(network_type) ==
    CASE network_type = "Bitcoin" -> 50001
      [] network_type = "Testnet" -> 60001
      [] network_type = "Regtest" -> 60401
default_http_port(network_type) ==
    CASE network_type = "Bitcoin" -> 3000
      [] network_type = "Testnet" -> 3001
      [] network_type = "Regtest" -> 3002
default_monitoring_port(network_type) ==
    CASE network_type = "Bitcoin" -> 4224
      [] network_type = "Testnet" -> 14224
      [] network_type = "Regtest" -> 24224

default_port(o, network_type) ==
    CASE o = "daemon_rpc_addr" -> default_daemon_port(network_type)
      [] o = "electrum_rpc_addr" -> default_electrum_port(network_type)
      [] o = "http_addr" -> default_http_port(network_type)
      [] o = "monitoring_addr" -> default_monitoring_port(network_type)

\* a plausible slip: the address given on the command line is ignored
socket_addr_ignoring_option(m, o, network_type) ==
    SocketAddr_from_str(format_addr(default_port(o, network_type)))

\* m.value_of(o).unwrap_or(&format!("127.0.0.1:{}", default)).parse()
socket_addr(m, o, network_type) ==
    SocketAddr_from_str(
        unwrap_or(value_of(m, o), format_addr(default_port(o, network_type))))

\* a plausible slip: the network's subdirectory is not appended
daemon_dir_without_subdir(m, e, network_type) ==
    IF value_of(m, "daemon_dir") /= None
    THEN Some(value_of(m, "daemon_dir")[1])
    ELSE IF e.home_dir = None THEN None
    ELSE Some(join(e.home_dir[1], ".viacoin"))

\* None when home_dir() is needed and there is none (expect("no homedir"))
daemon_dir_of(m, e, network_type) ==
    LET base == IF value_of(m, "daemon_dir") /= None
                THEN Some(value_of(m, "daemon_dir")[1])
                ELSE IF e.home_dir = None THEN None
                ELSE Some(join(e.home_dir[1], ".viacoin"))
    IN  IF base = None THEN None
        ELSE CASE network_type = "Bitcoin" -> base
               [] network_type = "Testnet" -> Some(join(base[1], "testnet3"))
               [] network_type = "Regtest" -> Some(join(base[1], "regtest"))

\* a plausible slip: the 0 that stands for "not given" is kept
bulk_index_threads_kept(m, e) ==
    usize_from_str(value_of(m, "bulk_index_threads")[1])

\* value_t_or_exit!(m, "bulk_index_threads", usize), 0 replaced by num_cpus::get()
bulk_index_threads_of(m, e) ==
    LET parsed == usize_from_str(value_of(m, "bulk_index_threads")[1])
    IN  IF ~parsed.ok THEN parsed
        ELSE IF parsed.val = 0 THEN Ok(e.num_cpus)
        ELSE parsed

Panic(msg) == [status |-> "panic", msg |-> msg]
Exit(msg) == [status |-> "exit", msg |-> msg]
NotRun == [status |-> "none"]

from_args(m, e) ==
    LET network_name == network_name_of(m)
        nt == network_type_of(network_name)
        network_type == nt[1]
        daemon_rpc_addr == socket_addr(m, "daemon_rpc_addr", network_type)
        electrum_rpc_addr == socket_addr(m, "electrum_rpc_addr", network_type)
        http_addr == socket_addr(m, "http_addr", network_type)
        monitoring_addr == socket_addr(m, "monitoring_addr", network_type)
        daemon_dir == daemon_dir_of(m, e, network_type)
        bulk_index_threads == bulk_index_threads_of(m, e)
        index_batch_size == usize_from_str(value_of(m, "index_batch_size")[1])
        tx_cache_size == usize_from_str(value_of(m, "tx_cache_size")[1])
    IN  IF nt = None THEN Panic("unsupported Bitcoin network")
        ELSE IF ~daemon_rpc_addr.ok THEN Panic("invalid Bitcoind RPC address")
        ELSE IF ~electrum_rpc_addr.ok THEN Panic("invalid Electrum RPC address")
        ELSE IF ~http_addr.ok THEN Panic("invalid HTTP server address")
        ELSE IF ~monitoring_addr.ok THEN Panic("invalid Prometheus monitoring address")
        ELSE IF daemon_dir = None THEN Panic("no homedir")
        ELSE IF ~bulk_index_threads.ok THEN Exit("bulk_index_threads")
        ELSE IF ~index_batch_size.ok THEN Exit("index_batch_size")
        ELSE IF ~tx_cache_size.ok THEN Exit("tx_cache_size")
        ELSE [status |-> "ok",
              log |-> [verbosity |-> m.verbosity,
                       timestamp |-> IF is_present(m, "timestamp")
                                     THEN "Millisecond" ELSE "Off"],
              network_type |-> network_type,
              db_path |-> db_path_of(m),
              daemon_dir |-> daemon_dir[1],
              daemon_rpc_addr |-> daemon_rpc_addr.val,
              cookie |-> value_of(m, "cookie"),
              electrum_rpc_addr |-> electrum_rpc_addr.val,
              http_addr |-> http_addr.val,
              monitoring_addr |-> monitoring_addr.val,
              jsonrpc_import |-> is_present(m, "jsonrpc_import"),
              index_batch_size |-> index_batch_size.val,
              bulk_index_threads |-> bulk_index_threads.val,
              tx_cache_size |-> tx_cache_size.val,
              extended_db_enabled |-> ~is_present(m, "light"),
              prevout_enabled |-> ~is_present(m, "disable_prevout")]

(***************************************************************************)
(* The credential providers.                                                *)
(***************************************************************************)
\* a plausible slip: the file-backed provider is returned whatever was configured
cookie_getter_always_file(self) ==
    Some([kind |-> "CookieFile", daemon_dir |-> self.daemon_dir])

\* Config::cookie_getter
cookie_getter(self) ==
    IF self.cookie /= None
    THEN Some([kind |-> "StaticCookie", value |-> as_bytes(self.cookie[1])])
    ELSE Some([kind |-> "CookieFile", daemon_dir |-> self.daemon_dir])

\* a file: whether it exists, whether this process may read it, the bytes it holds
CookieContents == {<<117, 58, 112>>, <<117, 58, 113>>}
Absent == [exists |-> FALSE, readable |-> FALSE, data |-> <<>>]
File(c, r) == [exists |-> TRUE, readable |-> r, data |-> c]
Readable(f) == f.exists /\ f.readable

\* the paths at which a daemon of some network keeps its cookie
DaemonDirs ==
    LET bases == {<<"/d">>, <<"/home/u", ".viacoin">>}
    IN  bases \cup {join(b, "testnet3") : b \in bases}
              \cup {join(b, "regtest") : b \in bases}
CookiePaths == {join(d, ".cookie") : d \in DaemonDirs}

\* fs::read: the file's bytes, or an io::Error
fs_read(path) ==
    IF path \in DOMAIN fs /\ Readable(fs[path])
    THEN Ok(fs[path].data)
    ELSE Err("Io", path)

\* a plausible slip: the configured bytes are replaced by what the daemon's file holds
StaticCookie_get_from_file(self) ==
    LET hit == {p \in CookiePaths : Readable(fs[p])}
    IN  IF hit = {} THEN Ok(self.value) ELSE Ok(fs[CHOOSE p \in hit : TRUE].data)

\* StaticCookie::get
StaticCookie_get(self) == Ok(self.value)

\* the path CookieFile::get reads
cookie_path(self) == join(self.daemon_dir, ".cookie")

\* a plausible slip: a credential read once is kept and returned again
CookieFile_get_cached(self) ==
    IF lastGet /= None /\ lastGet[1].res.ok THEN lastGet[1].res
    ELSE LET contents == fs_read(cookie_path(self))
         IN  IF ~contents.ok THEN Err("Connection", cookie_path(self))
             ELSE Ok(contents.val)

\* a plausible slip: the read failure is passed on as it is, not as a Connection error
CookieFile_get_io_error(self) == fs_read(cookie_path(self))

\* a plausible slip: a failure is remembered and returned from then on
CookieFile_get_latched(self) ==
    IF lastGet /= None /\ ~lastGet[1].res.ok THEN lastGet[1].res
    ELSE LET contents == fs_read(cookie_path(self))
         IN  IF ~contents.ok THEN Err("Connection", cookie_path(self))
             ELSE Ok(contents.val)

\* CookieFile::get
CookieFile_get(self) ==
    LET path == cookie_path(self)
        contents == fs_read(path)
    IN  IF ~contents.ok THEN Err("Connection", path)
        ELSE Ok(contents.val)

\* CookieGetter::get, dispatched on the provider's type; the record keeps the
\* path handed to fs::read (None when no file is read)
get(self) ==
    IF self.kind = "StaticCookie"
    THEN [read |-> None, res |-> StaticCookie_get(self)]
    ELSE [read |-> Some(cookie_path(self)), res |-> CookieFile_get(self)]

(***************************************************************************)
(* Actions.                                                                 *)
(***************************************************************************)
\* main: let config = Config::from_args()
FromArgs ==
    /\ config = NotRun
    /\ config' = from_args(args, env)
    /\ lastOp' = "from_args"
    /\ UNCHANGED <<TrackerVars, BulkVars, args, env, prevArgs, prevConfig, CookieVars>>

\* the server is moved to another network: the program is run again with the
\* same command line but for --network, which is given, changed or removed
SwitchNetwork ==
    /\ config /= NotRun
    /\ \E v \in {None} \cup {Some(x) : x \in GivenValues("network")} :
          args' = [args EXCEPT !.network = v]
    /\ args' /= args
    /\ NumGiven(args') <= MaxGiven
    /\ prevArgs' = args
    /\ prevConfig' = config
    /\ config' = NotRun
    /\ lastOp' = "switch_network"
    /\ UNCHANGED <<TrackerVars, BulkVars, env, CookieVars>>

\* Daemon::new: let cookie_getter = config.cookie_getter()
CookieGetter ==
    /\ config.status = "ok"
    /\ getter' = cookie_getter(config)
    /\ lastOp' = "cookie_getter"
    /\ UNCHANGED <<TrackerVars, BulkVars, ConfigVars, fs, lastGet, prevGet>>

\* one RPC call of the daemon client: cookie_getter.get()
Get ==
    /\ getter /= None
    /\ lastGet' = Some(get(getter[1]))
    /\ prevGet' = lastGet
    /\ lastOp' = "get"
    /\ UNCHANGED <<TrackerVars, BulkVars, ConfigVars, getter, fs>>

NumFiles(f) == Cardinality({p \in CookiePaths : f[p].exists})

\* a daemon starts or rotates its credential: the cookie file is (re)written
DaemonWrite ==
    /\ \E p \in CookiePaths : \E c \in CookieContents :
          /\ ~(fs[p].exists /\ fs[p].data = c)
          /\ fs' = [fs EXCEPT ![p] = File(c, IF fs[p].exists THEN fs[p].readable ELSE TRUE)]
    /\ NumFiles(fs') <= MaxFiles
    /\ lastOp' = "write"
    /\ UNCHANGED <<TrackerVars, BulkVars, ConfigVars, getter, lastGet, prevGet>>

\* a daemon stops: its cookie file is removed
DaemonRemove ==
    /\ \E p \in CookiePaths :
          /\ fs[p].exists
          /\ fs' = [fs EXCEPT ![p] = Absent]
    /\ lastOp' = "remove"
    /\ UNCHANGED <<TrackerVars, BulkVars, ConfigVars, getter, lastGet, prevGet>>

\* the permissions of a cookie file change: this process may or may no longer read it
Chmod ==
    /\ \E p \in CookiePaths :
          /\ fs[p].exists
          /\ fs' = [fs EXCEPT ![p].readable = ~fs[p].readable]
    /\ lastOp' = "chmod"
    /\ UNCHANGED <<TrackerVars, BulkVars, ConfigVars, getter, lastGet, prevGet>>

(***************************************************************************)
(* The chain tracker (design document, 4.4).  A block is the sequence of    *)
(* branch labels leading to it from the genesis block <<>>: its height is   *)
(* its length, its previous block its front.                                *)
(***************************************************************************)
Labels == {"a", "b"}
RECURSIVE BlocksAt(_)
BlocksAt(h) ==
    IF h = 0 THEN {<<>>}
    ELSE {Append(b, l) : b \in BlocksAt(h - 1), l \in Labels}
Blocks == UNION {BlocksAt(h) : h \in 0..MaxHeight}
Genesis == <<>>
Height(b) == Len(b)
Ancestor(b, h) == SubSeq(b, 1, h)
\* the blocks of the chain ending in b
Chain(b) == {Ancestor(b, h) : h \in 0..Height(b)}
Descends(b, a) == a \in Chain(b)

\* where the chains of two blocks part: the highest block on both
CommonAncestor(x, y) ==
    LET both == Chain(x) \cap Chain(y)
    IN  CHOOSE c \in both : \A d \in both : Height(d) <= Height(c)

\* a block's transactions, in block order: its coinbase, paying the miner of
\* its branch, and (above the genesis block) a relayed payment that every
\* block of that height confirms, whichever branch it is on
Transactions(b) ==
    <<[txid |-> <<"coinbase", b>>,
       fp |-> IF b /= <<>> /\ b[Len(b)] = "b" THEN "miner_b" ELSE "miner_a"]>>
    \o (IF b = <<>> THEN <<>>
        ELSE <<[txid |-> <<"payment", Height(b)>>, fp |-> "payee"]>>)
Fingerprints == {"miner_a", "miner_b", "payee"}

\* the History Entries indexing block b yields
HistoryEntries(b) ==
    {[fp |-> Transactions(b)[i].fp, height |-> Height(b), pos |-> i,
      txid |-> Transactions(b)[i].txid] : i \in 1..Len(Transactions(b))}

\* a plausible slip: the Chain Tip steps back and the block's entries stay
retract_batch_keeping(b) == store

\* the Store batch retracting block b
retract_batch(b) == store \ HistoryEntries(b)

\* the Store batch indexing block b
extend_batch(b) == store \cup HistoryEntries(b)

\* Polling: the daemon's best block is asked for
Poll ==
    /\ trackerPc \in {"idle", "synced"}
    /\ daemonBest /= tip
    /\ target' = daemonBest
    /\ oldTip' = tip
    /\ trackerPc' = IF Descends(daemonBest, tip) THEN "extend" ELSE "retract"
    /\ UNCHANGED <<ConfigVars, CookieVars, lastOp, BulkVars, daemonBest, tip, store>>

\* Reorg: the block at the tip is not on the daemon's chain; its entries are
\* retracted in one batch (highest block first) and the tip steps back
Retract ==
    /\ trackerPc = "retract"
    /\ store' = retract_batch(tip)
    /\ tip' = Ancestor(tip, Height(tip) - 1)
    /\ trackerPc' = IF tip' = target THEN "synced"
                    ELSE IF Descends(target, tip') THEN "extend"
                    ELSE "retract"
    /\ UNCHANGED <<ConfigVars, CookieVars, lastOp, BulkVars, daemonBest, target,
                   oldTip>>

\* Extend: the next block of the daemon's chain is fetched and indexed, and
\* the tip advances to it
Extend ==
    /\ trackerPc = "extend"
    /\ LET next == Ancestor(target, Height(tip) + 1)
       IN  /\ store' = extend_batch(next)
           /\ tip' = next
           /\ trackerPc' = IF next = target THEN "synced" ELSE "extend"
    /\ UNCHANGED <<ConfigVars, CookieVars, lastOp, BulkVars, daemonBest, target,
                   oldTip>>

\* a daemon call fails (Connection, or the daemon is not ready): the tracker
\* logs it and tries again at the next poll, from the tip it has reached
SyncFails ==
    /\ trackerPc \in {"retract", "extend"}
    /\ trackerPc' = "idle"
    /\ UNCHANGED <<ConfigVars, CookieVars, lastOp, BulkVars, daemonBest, tip, store,
                   target, oldTip>>

\* the daemon's best chain changes: a new block, or a competing branch wins
DaemonNewBest ==
    /\ \E b \in Blocks : b /= daemonBest /\ daemonBest' = b
    /\ UNCHANGED <<ConfigVars, CookieVars, lastOp, BulkVars, tip, store, target,
                   oldTip, trackerPc>>

(***************************************************************************)
(* The bulk indexer (design document, 4.3).                                 *)
(***************************************************************************)
Workers == 1..bulk.bulk_index_threads
\* the chunks of heights 0..start_tip, index_batch_size blocks each
NumChunks == (bulk.start_tip + bulk.index_batch_size) \div bulk.index_batch_size
ChunkBatch(c) ==
    LET first == (c - 1) * bulk.index_batch_size
        to == c * bulk.index_batch_size - 1
    IN  [first |-> first, last |-> IF to > bulk.start_tip THEN bulk.start_tip ELSE to]
\* the height the writer has committed through (-1: nothing yet)
CommittedThrough == IF committed = <<>> THEN -1 ELSE committed[Len(committed)].last

\* a plausible slip: the writer commits whichever computed chunk it holds
committable_any == ready

\* the chunks the writer may commit now: the one after the last committed
committable == ready \cap {Len(committed) + 1}

\* a worker pulls the next chunk off the work queue
Pull ==
    /\ ~bulkDone
    /\ nextChunk <= NumChunks
    /\ nextChunk - Len(committed) <= QueueBound
    /\ \E w \in Workers :
          /\ working[w] = 0
          /\ working' = [working EXCEPT ![w] = nextChunk]
    /\ nextChunk' = nextChunk + 1
    /\ UNCHANGED <<ConfigVars, CookieVars, lastOp, TrackerVars, bulk, chainHeight,
                   ready, handed, committed, bulkDone>>

\* a worker has fetched its chunk's blocks and computed the chunk's batch, and
\* hands it to the writer
Finish ==
    /\ \E w \in Workers :
          /\ working[w] /= 0
          /\ ready' = ready \cup {working[w]}
          /\ handed' = Append(handed, working[w])
          /\ working' = [working EXCEPT ![w] = 0]
    /\ UNCHANGED <<ConfigVars, CookieVars, lastOp, TrackerVars, bulk, chainHeight,
                   nextChunk, committed, bulkDone>>

\* the writer commits one chunk's batch; the indexer has completed once the
\* height observed at its start is committed
Commit ==
    /\ ~bulkDone
    /\ \E c \in committable :
          /\ committed' = Append(committed, ChunkBatch(c))
          /\ ready' = ready \ {c}
          /\ bulkDone' = (ChunkBatch(c).last = bulk.start_tip)
    /\ UNCHANGED <<ConfigVars, CookieVars, lastOp, TrackerVars, bulk, chainHeight,
                   nextChunk, working, handed>>

\* the daemon's chain grows while the indexer runs
ChainGrows ==
    /\ chainHeight < bulk.start_tip + MaxGrowth
    /\ chainHeight' = chainHeight + 1
    /\ UNCHANGED <<ConfigVars, CookieVars, lastOp, TrackerVars, bulk, nextChunk,
                   working, ready, handed, committed, bulkDone>>

(***************************************************************************)
(* Specifications.                                                          *)
(***************************************************************************)
Hosts == {[home_dir |-> h, num_cpus |-> n] :
            h \in {None, Some(<<"/home/u">>)}, n \in 1..MaxCpus}

InitTrackerIdle ==
    /\ daemonBest = Genesis
    /\ tip = Genesis
    /\ store = HistoryEntries(Genesis)
    /\ target = Genesis
    /\ oldTip = Genesis
    /\ trackerPc = "synced"

BulkSettings ==
    {[start_tip |-> t, index_batch_size |-> s, bulk_index_threads |-> n] :
        t \in 0..MaxTip, s \in 1..MaxBatch, n \in 1..MaxWorkers}

InitBulkWith(settings) ==
    /\ bulk = settings
    /\ chainHeight = settings.start_tip
    /\ nextChunk = 1
    /\ working = [w \in 1..settings.bulk_index_threads |-> 0]
    /\ ready = {}
    /\ handed = <<>>
    /\ committed = <<>>
    /\ bulkDone = FALSE

InitBulkIdle ==
    InitBulkWith([start_tip |-> 0, index_batch_size |-> 1, bulk_index_threads |-> 1])

InitConfigIdle ==
    /\ args = NoArgs
    /\ env = [home_dir |-> Some(<<"/home/u">>), num_cpus |-> 1]
    /\ config = NotRun
    /\ prevArgs = NoArgs
    /\ prevConfig = NotRun

InitCookieIdle ==
    /\ getter = None
    /\ fs = [p \in CookiePaths |-> Absent]
    /\ lastGet = None
    /\ prevGet = None

\* SpecConfig: the program is invoked, again and again, on one host
\* the command lines with at most k options on them
RECURSIVE ArgsUpTo(_)
ArgsUpTo(k) ==
    IF k = 0 THEN {NoArgs}
    ELSE LET less == ArgsUpTo(k - 1)
         IN  less
             \cup UNION {UNION {{[m EXCEPT ![o] = Some(v)] : v \in GivenValues(o)} :
                                   o \in {x \in ValueOpts : m[x] = None}} : m \in less}
             \cup {[m EXCEPT ![o] = TRUE] : <<m, o>> \in {x \in less \X FlagOpts : ~x[1][x[2]]}}
             \cup {[m EXCEPT !.verbosity = 1] : m \in {x \in less : x.verbosity = 0}}

InitConfig ==
    /\ args \in {m \in ArgsUpTo(MaxGiven) : NumGiven(m) <= MaxGiven}
    /\ env \in Hosts
    /\ config = NotRun
    /\ prevArgs = NoArgs
    /\ prevConfig = NotRun
    /\ lastOp = "init"
    /\ InitCookieIdle
    /\ InitTrackerIdle
    /\ InitBulkIdle

NextConfig == FromArgs \/ SwitchNetwork

SpecConfig == InitConfig /\ [][NextConfig]_vars

\* SpecCookie: one invocation, its credential provider, and the daemons' cookie files
CookieArgs ==
    {[NoArgs EXCEPT !.network = n, !.daemon_dir = d, !.cookie = c] :
        n \in {None} \cup {Some(x) : x \in GivenValues("network")},
        d \in {None} \cup {Some(x) : x \in GivenValues("daemon_dir")},
        c \in {None} \cup {Some(x) : x \in GivenValues("cookie")}}

InitCookie ==
    /\ args \in CookieArgs
    /\ env \in {h \in Hosts : h.num_cpus = 1}
    /\ config = NotRun
    /\ prevArgs = NoArgs
    /\ prevConfig = NotRun
    /\ lastOp = "init"
    /\ InitCookieIdle
    /\ InitTrackerIdle
    /\ InitBulkIdle

NextCookie ==
    FromArgs \/ CookieGetter \/ Get \/ DaemonWrite \/ DaemonRemove \/ Chmod

SpecCookie == InitCookie /\ [][NextCookie]_vars

\* SpecReorg: the chain tracker follows a daemon whose best chain changes
InitReorg ==
    /\ InitConfigIdle
    /\ InitCookieIdle
    /\ lastOp = "init"
    /\ InitTrackerIdle
    /\ InitBulkIdle

NextReorg == Poll \/ Retract \/ Extend \/ SyncFails \/ DaemonNewBest

SpecReorg == InitReorg /\ [][NextReorg]_vars

\* SpecBulk: one run of the bulk indexer
InitBulk ==
    /\ InitConfigIdle
    /\ InitCookieIdle
    /\ lastOp = "init"
    /\ InitTrackerIdle
    /\ \E settings \in BulkSettings : InitBulkWith(settings)

NextBulk == Pull \/ Finish \/ Commit \/ ChainGrows

SpecBulk == InitBulk /\ [][NextBulk]_vars

(***************************************************************************)
(* Properties of the credential providers (SpecCookie).                     *)
(***************************************************************************)
\* a step that is one call of CookieGetter::get (only Get sets lastOp to "get")
GetStep == lastOp' = "get"
FileBacked == getter /= None /\ getter[1].kind = "CookieFile"
Static == getter /= None /\ getter[1].kind = "StaticCookie"
\* the file a file-backed provider is bound to
CredentialFile == fs[Append(getter[1].daemon_dir, ".cookie")]

\* C1: every successful get of the file-backed provider returns exactly the
\* bytes the credential file holds when the call is made, whatever an earlier
\* get returned and however the daemon rewrote the file in between.
C1_GetReturnsCurrentContents ==
    [][(GetStep /\ FileBacked /\ lastGet'[1].res.ok)
          => /\ CredentialFile.exists
             /\ CredentialFile.readable
             /\ lastGet'[1].res.val = CredentialFile.data]_vars

\* C1 happens: two successive gets of a file-backed provider returned different
\* contents, the second being what the rotated file holds
C1_RotationObserved ==
    /\ lastOp = "get" /\ FileBacked
    /\ prevGet /= None /\ prevGet[1].res.ok
    /\ lastGet[1].res.ok
    /\ lastGet[1].res.val /= prevGet[1].res.val
    /\ lastGet[1].res.val = CredentialFile.data

\* C2: a file-backed get made while the credential file is missing or
\* unreadable returns an error of kind Connection, and no bytes.
C2_MissingFileIsConnectionError ==
    [][(GetStep /\ FileBacked /\ ~(CredentialFile.exists /\ CredentialFile.readable))
          => /\ ~lastGet'[1].res.ok
             /\ lastGet'[1].res.kind = "Connection"
             /\ "val" \notin DOMAIN lastGet'[1].res]_vars

\* C2 happens: a get failed on a file that exists but cannot be read
C2_UnreadableFileRefused ==
    /\ lastOp = "get" /\ FileBacked
    /\ CredentialFile.exists /\ ~CredentialFile.readable
    /\ ~lastGet[1].res.ok
    /\ lastGet[1].res.kind = "Connection"

\* the bytes of the cookie texts of the model
ExpectedCookieBytes(text) ==
    CASE text = <<>> -> <<>>
      [] text = <<"u", ":", "p">> -> <<117, 58, 112>>

\* C3: every get of the static provider succeeds with the bytes of the cookie
\* text given at startup, whatever was returned before and whatever state the
\* daemon's cookie file is in.
C3_StaticCookieVerbatim ==
    [][(GetStep /\ Static)
          => lastGet'[1].res = Ok(ExpectedCookieBytes(args.cookie[1]))]_vars

\* C3 happens: a second get of the static provider, made while a daemon's
\* cookie file holds other bytes, returned the configured bytes
C3_StaticDespiteRotation ==
    /\ lastOp = "get" /\ Static
    /\ prevGet /= None
    /\ lastGet[1].res = Ok(<<117, 58, 112>>)
    /\ \E p \in CookiePaths : Readable(fs[p]) /\ fs[p].data = <<117, 58, 113>>

\* the daemon data directory as configured: --daemon-dir, or ~/.viacoin
ConfiguredDaemonDir ==
    IF args.daemon_dir /= None THEN args.daemon_dir[1]
    ELSE Append(env.home_dir[1], ".viacoin")

NetworkSubdir ==
    CASE args.network = None -> <<>>
      [] args.network = Some("mainnet") -> <<>>
      [] args.network = Some("testnet") -> <<"testnet3">>
      [] args.network = Some("regtest") -> <<"regtest">>

C9_VariantSelection ==
    /\ [](getter /= None =>
            /\ Static <=> args.cookie /= None
            /\ FileBacked <=> args.cookie = None
            /\ Static => getter[1].value = ExpectedCookieBytes(args.cookie[1])
            /\ FileBacked => getter[1].daemon_dir = config.daemon_dir)
    /\ [][GetStep => getter' = getter]_vars

\* C9 happens: gets were served by a static provider built from --cookie u:p
C9_StaticSelected ==
    /\ args.cookie = Some(<<"u", ":", "p">>)
    /\ Static /\ getter[1].value = <<117, 58, 112>>
    /\ lastOp = "get" /\ prevGet /= None

\* C10: a get changes no file, and a file-backed get made while the file is
\* readable succeeds with the file's contents even if the get before it failed.
C10_FailureNotLatched ==
    [][GetStep =>
          /\ fs' = fs
          /\ (FileBacked /\ lastGet /= None /\ ~lastGet[1].res.ok
                /\ CredentialFile.exists /\ CredentialFile.readable)
                => lastGet'[1].res = Ok(CredentialFile.data)]_vars

\* C10 happens: a get failed, the file became readable, the next get succeeded
C10_RecoveredAfterFailure ==
    /\ lastOp = "get" /\ FileBacked
    /\ prevGet /= None /\ ~prevGet[1].res.ok
    /\ lastGet[1].res.ok
    /\ lastGet[1].res.val = CredentialFile.data

(***************************************************************************)
(* Properties of from_args (SpecConfig).                                    *)
(***************************************************************************)
\* the number a --bulk-index-threads text of the model stands for
ThreadsMeant(text) ==
    CASE text = <<"0">> -> Some(0)
      [] text = <<"0", "0">> -> Some(0)
      [] text = <<"3">> -> Some(3)
      [] text = <<"+", "2">> -> Some(2)
      [] OTHER -> None

\* C6: bulk_index_threads of the Config is the host's core count when the
\* option is absent or 0, the given number when that is positive, never 0.
C6_PoolSizeDefault ==
    config.status = "ok" =>
        LET given == args.bulk_index_threads
        IN  /\ (given = None \/ ThreadsMeant(given[1]) = Some(0))
                  => config.bulk_index_threads = env.num_cpus
            /\ (given /= None /\ ThreadsMeant(given[1]) /= None
                  /\ ThreadsMeant(given[1])[1] > 0)
                  => config.bulk_index_threads = ThreadsMeant(given[1])[1]
            /\ config.bulk_index_threads /= 0

\* C6 happens: --bulk-index-threads 0 on a host of two cores gave a pool of two
C6_ZeroMeansCores ==
    /\ config.status = "ok"
    /\ args.bulk_index_threads = Some(<<"0">>)
    /\ env.num_cpus = 2
    /\ config.bulk_index_threads = 2

DiffersOnlyInNetwork(a, b) ==
    /\ a.network /= b.network
    /\ [a EXCEPT !.network = None] = [b EXCEPT !.network = None]

IsPrefix(p, q) == Len(p) <= Len(q) /\ SubSeq(q, 1, Len(p)) = p

\* C7: two invocations whose command lines differ only in --network give
\* configurations that agree on every setting but the ports of the addresses
\* left to default and the network's subdirectory of the store path and of
\* the daemon directory.
C7_NetworkOnlyPortsAndSubdir ==
    (config.status = "ok" /\ prevConfig.status = "ok"
       /\ DiffersOnlyInNetwork(prevArgs, args))
    => /\ \A f \in {"log", "cookie", "jsonrpc_import", "index_batch_size",
                    "bulk_index_threads", "tx_cache_size", "extended_db_enabled",
                    "prevout_enabled"} : config[f] = prevConfig[f]
       /\ \A o \in AddrOpts :
             /\ args[o] /= None => config[o] = prevConfig[o]
             /\ config[o].ip = prevConfig[o].ip
       /\ SubSeq(config.db_path, 1, Len(config.db_path) - 1)
             = SubSeq(prevConfig.db_path, 1, Len(prevConfig.db_path) - 1)
       /\ \A c \in {config, prevConfig} :
             /\ IsPrefix(ConfiguredDaemonDir, c.daemon_dir)
             /\ Len(c.daemon_dir) <= Len(ConfiguredDaemonDir) + 1

\* C7 happens: the server was moved from testnet to regtest with an explicit
\* Electrum address: that address stayed, the default HTTP port changed
C7_TestnetToRegtest ==
    /\ config.status = "ok" /\ prevConfig.status = "ok"
    /\ prevArgs.network = Some("testnet") /\ args.network = Some("regtest")
    /\ args.electrum_rpc_addr /= None
    /\ config.electrum_rpc_addr = prevConfig.electrum_rpc_addr
    /\ config.http_addr.port /= prevConfig.http_addr.port
    /\ config.daemon_dir /= prevConfig.daemon_dir

(***************************************************************************)
(* Properties of the chain tracker (SpecReorg) and of the bulk indexer      *)
(* (SpecBulk).                                                              *)
(***************************************************************************)
\* the History Entries of the blocks of the chain ending in b
ChainEntries(b) == UNION {HistoryEntries(x) : x \in Chain(b)}
History(fp) == {e \in store : e.fp = fp}

\* C4: once the tracker has converged on the branch the daemon reported, the
\* Chain Tip is that branch's tip and, above the height where the branch
\* parts from the chain the tip was on, every fingerprint's history holds
\* entries of the branch's blocks only.
C4_ReorgCorrectness ==
    trackerPc = "synced" =>
        /\ tip = target
        /\ \A fp \in Fingerprints : \A e \in History(fp) :
              e.height > Height(CommonAncestor(oldTip, target))
                 => e \in ChainEntries(target)

\* C4 happens: the tracker converged on a branch that parts two blocks below
\* the old tip, and the store holds the new branch's entries above that height
C4_DeepReorgConverged ==
    /\ trackerPc = "synced"
    /\ ~Descends(target, oldTip)
    /\ Height(oldTip) - Height(CommonAncestor(oldTip, target)) >= 2
    /\ Height(target) > Height(CommonAncestor(oldTip, target))
    /\ \E e \in store : e.height > Height(CommonAncestor(oldTip, target))

\* C5: the writer commits the chunks' batches in ascending height order with
\* no gap, whatever the pool size and the order the workers finish in, and
\* the indexer has completed exactly when the writer has committed through
\* the daemon tip height observed at its start.
C5_OrderedCommit ==
    /\ \A i \in 1..Len(committed) :
          /\ committed[i].first = (IF i = 1 THEN 0 ELSE committed[i - 1].last + 1)
          /\ committed[i].first <= committed[i].last
    /\ CommittedThrough <= bulk.start_tip
    /\ bulkDone <=> CommittedThrough = bulk.start_tip

\* C5 happens: two workers finished chunks out of order, the chain grew
\* meanwhile, and the indexer completed
C5_OutOfOrderCompleted ==
    /\ bulkDone
    /\ bulk.bulk_index_threads >= 2
    /\ Len(committed) >= 2
    /\ \E i \in 1..(Len(handed) - 1) : handed[i] > handed[i + 1]
    /\ chainHeight > bulk.start_tip

====
